---- MODULE Spec2Model ----
(***************************************************************************)
(* Model of pyembed/importer.rs: the packed-modules blob parser, the meta  *)
(* path importer PyOxidizerFinder and the one-shot _setup() of the         *)
(* importer module.                                                        *)
(*                                                                         *)
(* Byte strings (blobs, module names, payloads) are sequences of numbers   *)
(* in 0..255.  Module names are kept as their bytes, so that slicing and   *)
(* the search for '.' are computed, not assumed.                           *)
(***************************************************************************)
EXTENDS Integers, Sequences, FiniteSets, TLC

VARIABLES
    state,      \* ModuleState of the importer module: py_data, pyc_data, setup_called
    meta_path,  \* sys.meta_path of the host interpreter
    inittab,    \* PyImport_Inittab: names of the built-in modules
    frozen,     \* PyImport_FrozenModules: names of the frozen modules
    finder,     \* the PyOxidizerFinder instance created by _setup(), if any
    last        \* the last call made and what it returned

vars == <<state, meta_path, inittab, frozen, finder, last>>

----------------------------------------------------------------------------
(* Bounds and input alphabets *)

\* Largest number of index entries of a generated blob.
MaxEntries == 2

\* The package separator searched by populate_packages.
Dot == 46

NameA == <<97>>
NameB == <<98>>
NameAB == <<97, Dot, 98>>
NameABC == <<97, Dot, 98, Dot, 99>>
NameS == <<115>>
NameZA == <<122, Dot, 97>>
NameEmpty == <<>>
\* A C string that is not valid UTF-8.
NameBad == <<255>>

BoundedSeq(S, n) == UNION {[1..k -> S] : k \in 0..n}

RECURSIVE Concat(_)
Concat(ss) == IF ss = <<>> THEN <<>> ELSE Head(ss) \o Concat(Tail(ss))

----------------------------------------------------------------------------
(* The packed blob format, as the build step writes it *)

U32LE(n) == <<n % 256, (n \div 256) % 256, (n \div 65536) % 256, (n \div 16777216) % 256>>

Encode(es) ==
    U32LE(Len(es))
    \o Concat([i \in 1..Len(es) |-> U32LE(Len(es[i].name)) \o U32LE(Len(es[i].data))])
    \o Concat([i \in 1..Len(es) |-> es[i].name])
    \o Concat([i \in 1..Len(es) |-> es[i].data])

----------------------------------------------------------------------------
(* parse_modules_blob *)

\* reader.read_u32::<LittleEndian>() at 0-based position pos; ok is FALSE when
\* fewer than 4 bytes remain (read_exact fails and the caller's unwrap panics).
read_u32(data, pos) ==
    IF pos + 4 <= Len(data)
    THEN [ok |-> TRUE,
          v |-> data[pos + 1] + 256 * data[pos + 2] + 65536 * data[pos + 3]
                + 16777216 * data[pos + 4]]
    ELSE [ok |-> FALSE, v |-> 0]

\* &data[from..to]: ok is FALSE when the range is out of bounds (the index panics).
Slice(data, from, to) ==
    IF from <= to /\ to <= Len(data)
    THEN [ok |-> TRUE, v |-> SubSeq(data, from + 1, to)]
    ELSE [ok |-> FALSE, v |-> <<>>]

\* The while loop reading the index.
RECURSIVE ReadIndex(_, _, _, _, _, _)
ReadIndex(data, count, i, pos, index, total_names_length) ==
    IF i >= count
    THEN [panic |-> FALSE, index |-> index, pos |-> pos, total |-> total_names_length]
    ELSE LET name_length == read_u32(data, pos)
             data_length == read_u32(data, pos + 4)
         IN  IF ~name_length.ok \/ ~data_length.ok
             THEN [panic |-> TRUE, index |-> index, pos |-> pos, total |-> total_names_length]
             ELSE ReadIndex(data, count, i + 1, pos + 8,
                            Append(index, <<name_length.v, data_length.v>>),
                            total_names_length + name_length.v)

\* HashMap::insert: an existing key's value is replaced.
MapInsertKeepFirst(res, name, value) ==
    [k \in DOMAIN res \cup {name} |-> IF k \in DOMAIN res THEN res[k] ELSE value]

MapInsert(res, name, value) ==
    [k \in DOMAIN res \cup {name} |-> IF k = name THEN value ELSE res[k]]

EmptyMap == [k \in {} |-> <<>>]

\* The for loop slicing the names and the values.
RECURSIVE ReadEntries(_, _, _, _, _, _)
ReadEntries(data, index, offset, values_start_offset, values_current_offset, res) ==
    IF index = <<>>
    THEN [tag |-> "Ok", map |-> res]
    ELSE LET name_length == Head(index)[1]
             value_length == Head(index)[2]
             name == Slice(data, offset, offset + name_length)
             value_offset == values_start_offset + values_current_offset
             value == Slice(data, value_offset, value_offset + value_length)
         IN  IF ~name.ok \/ ~value.ok
             THEN [tag |-> "Panic", map |-> EmptyMap]
             ELSE ReadEntries(data, Tail(index), offset + name_length,
                              values_start_offset, values_current_offset + value_length,
                              MapInsert(res, name.v, value.v))

parse_modules_blob(data) ==
    IF Len(data) < 4
    THEN [tag |-> "Err", msg |-> "modules data too small"]
    ELSE LET count == read_u32(data, 0).v
             idx == ReadIndex(data, count, 0, 4, <<>>, 0)
         IN  IF idx.panic
             THEN [tag |-> "Panic", map |-> EmptyMap]
             ELSE ReadEntries(data, idx.index, idx.pos, idx.pos + idx.total, 0, EmptyMap)

----------------------------------------------------------------------------
(* Buffers handed to the parser *)

ParseNames == {NameEmpty, NameA, NameB, NameAB}
ParsePayloads == {<<>>, <<7>>, <<8, 9>>}
ParseEntries == [name : ParseNames, data : ParsePayloads]

\* What the build step produces for up to MaxEntries entries.
PackedBlobs == {Encode(es) : es \in BoundedSeq(ParseEntries, MaxEntries)}

\* Every strict prefix of a packed blob.
TruncatedBlobs == UNION {{SubSeq(b, 1, k) : k \in 0..(Len(b) - 1)} : b \in PackedBlobs}

\* A packed blob whose entry count is raised so that the index no longer fits,
\* or one of whose name or data lengths is raised by one.
CorruptBlobs ==
    UNION {{[b EXCEPT ![1] = @ + j] : j \in {j \in 1..3 : 4 + 8 * (b[1] + j) > Len(b)}}
           \cup {[b EXCEPT ![4 + 8 * (i - 1) + 1] = @ + 1] : i \in 1..b[1]}
           \cup {[b EXCEPT ![4 + 8 * (i - 1) + 5] = @ + 1] : i \in 1..b[1]}
           : b \in PackedBlobs}

ParseBlobs == PackedBlobs \cup TruncatedBlobs \cup CorruptBlobs

----------------------------------------------------------------------------
(* Values exchanged with the interpreter *)

PyNone == [kind |-> "None"]
Ok(v) == [tag |-> "Ok", value |-> v]
Err(exc, args) == [tag |-> "Err", exc |-> exc, args |-> args]

NoCall == [op |-> "none", args |-> <<>>, result |-> Ok(PyNone), calls |-> <<>>]
NoFinder == [exists |-> FALSE]

----------------------------------------------------------------------------
(* Registry and package set built by _setup() *)

\* CStr::to_str: the C string is valid UTF-8.  Over the bytes used for names
\* here (ASCII and 0xFF) that is: every byte is below 128.
to_str_ok(name) == \A i \in DOMAIN name : name[i] < 128

\* search.rfind('.'): the 0-based index of the last '.', or -1 for None.
rfind_dot(search) ==
    IF \E i \in DOMAIN search : search[i] = Dot
    THEN (CHOOSE i \in DOMAIN search :
             search[i] = Dot /\ \A j \in DOMAIN search : search[j] = Dot => j <= i) - 1
    ELSE -1

populate_packages_parent_only(packages, name) ==
    LET idx == rfind_dot(name)
    IN  IF idx < 0 THEN packages ELSE packages \cup {SubSeq(name, 1, idx)}

RECURSIVE populate_packages(_, _)
populate_packages(packages, name) ==
    LET idx == rfind_dot(name)
    IN  IF idx < 0
        THEN packages
        ELSE populate_packages(packages \cup {SubSeq(name, 1, idx)}, SubSeq(name, 1, idx))

RECURSIVE populate_all(_, _)
populate_all(packages, keys) ==
    IF keys = {}
    THEN packages
    ELSE LET key == CHOOSE k \in keys : TRUE
         IN  populate_all(populate_packages(packages, key), keys \ {key})

\* known_modules.insert(name, flavor) for every name of a table, in order.
RECURSIVE insert_names(_, _, _)
insert_names(known, names, flavor) ==
    IF names = <<>>
    THEN known
    ELSE insert_names(MapInsert(known, Head(names), flavor), Tail(names), flavor)

insert_keys(known, keys, flavor) ==
    [k \in DOMAIN known \cup keys |-> IF k \in keys THEN flavor ELSE known[k]]

build_known_modules_frozen_first(builtin_names, frozen_names, py_keys, pyc_keys) ==
    insert_keys(
        insert_keys(
            insert_names(insert_names(EmptyMap, frozen_names, "Frozen"),
                         builtin_names, "Builtin"),
            py_keys, "InMemory"),
        pyc_keys, "InMemory")

build_known_modules(builtin_names, frozen_names, py_keys, pyc_keys) ==
    insert_keys(
        insert_keys(
            insert_names(insert_names(EmptyMap, builtin_names, "Builtin"),
                         frozen_names, "Frozen"),
            py_keys, "InMemory"),
        pyc_keys, "InMemory")

----------------------------------------------------------------------------
(* module_setup *)

already_called_never(st) == FALSE

\* The guard read at the start of module_setup.
already_called(st) == st.setup_called

setup_error_path_cleared(mp, f, exc, msg) ==
    [result |-> Err(exc, <<msg>>), meta_path |-> <<>>, finder |-> f]

\* An early return of module_setup: nothing but the guard has been written.
setup_error(mp, f, exc, msg) ==
    [result |-> Err(exc, <<msg>>), meta_path |-> mp, finder |-> f]

\* A panic unwinding out of parse_modules_blob: module_setup stops there.
setup_panic(mp, f) ==
    [result |-> [tag |-> "Panic"], meta_path |-> mp, finder |-> f]

delegates_swapped(mp) == [builtin_importer |-> mp[2], frozen_importer |-> mp[1]]

\* meta_path.get_item(py, 0) and meta_path.get_item(py, 1)
delegates(mp) == [builtin_importer |-> mp[1], frozen_importer |-> mp[2]]

\* meta_path.clear() followed by meta_path.append(unified_importer)
install(mp, importer) == <<importer>>

\* builtins: what the interpreter yields for __builtins__ and its exec.
module_setup(st, mp, itab, ftab, f, builtins) ==
    IF already_called(st)
    THEN setup_error(mp, f, "RuntimeError", "PyOxidizer _setup() already called")
    ELSE IF Len(mp) /= 2
    THEN setup_error(mp, f, "ValueError", "sys.meta_path does not contain 2 values")
    ELSE LET py_modules == parse_modules_blob(st.py_data)
             pyc_modules == parse_modules_blob(st.pyc_data)
         IN  IF py_modules.tag = "Panic"
             THEN setup_panic(mp, f)
             ELSE IF py_modules.tag = "Err"
             THEN setup_error(mp, f, "ValueError", py_modules.msg)
             ELSE IF pyc_modules.tag = "Panic"
             THEN setup_panic(mp, f)
             ELSE IF pyc_modules.tag = "Err"
             THEN setup_error(mp, f, "ValueError", pyc_modules.msg)
             ELSE IF \E i \in DOMAIN itab : ~to_str_ok(itab[i])
             THEN setup_error(mp, f, "ValueError", "unable to parse PyImport_Inittab")
             ELSE IF \E i \in DOMAIN ftab : ~to_str_ok(ftab[i])
             THEN setup_error(mp, f, "ValueError", "unable to parse PyImport_FrozenModules")
             ELSE IF builtins = "null"
             THEN setup_error(mp, f, "ValueError", "unable to obtain __builtins__")
             ELSE IF builtins = "no exec"
             THEN setup_error(mp, f, "ValueError", "could not obtain __builtins__.exec")
             ELSE [result |-> Ok(PyNone),
                   meta_path |-> install(mp, "PyOxidizerFinder"),
                   finder |->
                       [exists |-> TRUE,
                        builtin_importer |-> delegates(mp).builtin_importer,
                        frozen_importer |-> delegates(mp).frozen_importer,
                        py_modules |-> py_modules.map,
                        pyc_modules |-> pyc_modules.map,
                        packages |-> populate_all(populate_all({}, DOMAIN py_modules.map),
                                                  DOMAIN pyc_modules.map),
                        known_modules |-> build_known_modules(itab, ftab,
                                                              DOMAIN py_modules.map,
                                                              DOMAIN pyc_modules.map)]]

setup_called_on_success(st, result) == st.setup_called \/ result.tag = "Ok"

\* state.setup_called once module_setup has run: it stays true past the guard,
\* and is set right after the guard, before anything that can fail.
setup_called_after(st, result) == TRUE

ModuleSetup(builtins) ==
    LET out == module_setup(state, meta_path, inittab, frozen, finder, builtins)
    IN  /\ state' = [state EXCEPT !.setup_called = setup_called_after(state, out.result)]
        /\ meta_path' = out.meta_path
        /\ finder' = out.finder
        /\ last' = [op |-> "module_setup", args |-> <<>>, result |-> out.result,
                    calls |-> <<>>]
        /\ UNCHANGED <<inittab, frozen>>

----------------------------------------------------------------------------
(* PyOxidizerFinder *)

\* The PyResult of calling a host object: whatever that call returns or raises.
Call(callee, method, args, kwargs) ==
    [tag |-> "Call", callee |-> callee, method |-> method, args |-> args,
     kwargs |-> kwargs]

NoKwargs == [k \in {} |-> FALSE]

Returns(result, calls) == [result |-> result, calls |-> calls]

unknown_module_raises ==
    Returns(Err("ImportError", <<"unknown module">>), <<>>)

\* The else branch of each method: the name is not in known_modules.
unknown_module == Returns(Ok(PyNone), <<>>)

is_package_if_known(f, key) == key \in DOMAIN f.known_modules

\* self.packages(py).contains(&*key)
is_package(f, key) == key \in f.packages

find_spec(f, fullname, path, target) ==
    IF fullname \in DOMAIN f.known_modules
    THEN CASE f.known_modules[fullname] = "Builtin" ->
                LET c == Call(f.builtin_importer, "find_spec",
                              <<fullname, path, target>>, NoKwargs)
                IN  Returns(c, <<c>>)
           [] f.known_modules[fullname] = "Frozen" ->
                LET c == Call(f.frozen_importer, "find_spec",
                              <<fullname, path, target>>, NoKwargs)
                IN  Returns(c, <<c>>)
           [] f.known_modules[fullname] = "InMemory" ->
                LET c == Call("module_spec_type", "__call__",
                              <<fullname, "PyOxidizerFinder">>,
                              [is_package |-> is_package(f, fullname)])
                IN  Returns(c, <<c>>)
    ELSE unknown_module

find_module(f, fullname, path) == Returns(Ok(PyNone), <<>>)

invalidate_caches(f) == Returns(Ok(PyNone), <<>>)

create_module(f, spec) == Returns(Ok(PyNone), <<>>)

missing_code_ignored(name) == Ok(PyNone)

\* No entry in pyc_modules for a module known as InMemory.
missing_code(name) == Err("ImportError", <<"cannot find code in memory", name>>)

\* loads_ok: whether marshal.loads returns a code object for the payload.
exec_module(f, name, loads_ok) ==
    IF name \in DOMAIN f.known_modules
    THEN CASE f.known_modules[name] = "Builtin" ->
                LET c == Call(f.builtin_importer, "exec_module", <<name>>, NoKwargs)
                IN  Returns(c, <<c>>)
           [] f.known_modules[name] = "Frozen" ->
                LET c == Call(f.frozen_importer, "exec_module", <<name>>, NoKwargs)
                IN  Returns(c, <<c>>)
           [] f.known_modules[name] = "InMemory" ->
                IF name \in DOMAIN f.pyc_modules
                THEN LET loads == Call("marshal_loads", "__call__",
                                       <<f.pyc_modules[name]>>, NoKwargs)
                         run == Call("call_with_frames_removed", "__call__",
                                     <<"exec_fn", f.pyc_modules[name], name>>, NoKwargs)
                     IN  IF loads_ok
                         THEN Returns(run, <<loads, run>>)
                         ELSE Returns(loads, <<loads>>)
                ELSE Returns(missing_code(name), <<>>)
    ELSE unknown_module

get_code(f, fullname) ==
    IF fullname \in DOMAIN f.known_modules
    THEN CASE f.known_modules[fullname] = "Frozen" ->
                LET c == Call("imp_module", "get_frozen_object", <<fullname>>, NoKwargs)
                IN  Returns(c, <<c>>)
           [] f.known_modules[fullname] = "InMemory" ->
                IF fullname \in DOMAIN f.pyc_modules
                THEN LET c == Call("marshal_loads", "__call__",
                                   <<f.pyc_modules[fullname]>>, NoKwargs)
                     IN  Returns(c, <<c>>)
                ELSE Returns(missing_code(fullname), <<>>)
           [] f.known_modules[fullname] = "Builtin" ->
                Returns(Ok(PyNone), <<>>)
    ELSE unknown_module

get_source(f, fullname) ==
    IF fullname \in DOMAIN f.known_modules
    THEN IF f.known_modules[fullname] = "InMemory"
         THEN IF fullname \in DOMAIN f.py_modules
              THEN LET c == Call("decode_source", "__call__",
                                 <<f.py_modules[fullname]>>, NoKwargs)
                   IN  Returns(c, <<c>>)
              ELSE Returns(Err("ImportError", <<"source not available", fullname>>), <<>>)
         ELSE Returns(Ok(PyNone), <<>>)
    ELSE unknown_module

\* A method call on the installed importer: only `last` changes.
Method(op, args, r) ==
    /\ finder.exists
    /\ last' = [op |-> op, args |-> args, result |-> r.result, calls |-> r.calls]
    /\ UNCHANGED <<state, meta_path, inittab, frozen, finder>>

FindSpec(fullname, path, target) ==
    Method("find_spec", <<fullname, path, target>>, find_spec(finder, fullname, path, target))

FindModule(fullname) ==
    Method("find_module", <<fullname>>, find_module(finder, fullname, PyNone))

InvalidateCaches == Method("invalidate_caches", <<>>, invalidate_caches(finder))

CreateModule(fullname) ==
    Method("create_module", <<fullname>>, create_module(finder, fullname))

ExecModule(name, loads_ok) ==
    Method("exec_module", <<name>>, exec_module(finder, name, loads_ok))

GetCode(fullname) == Method("get_code", <<fullname>>, get_code(finder, fullname))

GetSource(fullname) == Method("get_source", <<fullname>>, get_source(finder, fullname))

----------------------------------------------------------------------------
(* The importer module in its interpreter *)

PyEntries == {[name |-> NameABC, data |-> <<7>>], [name |-> NameB, data |-> <<8, 9>>]}
PycEntries == {[name |-> NameAB, data |-> <<5>>], [name |-> NameB, data |-> <<6>>]}

\* A buffer that is too small, and one whose index is missing.
BadBlobs == {<<0, 0, 0>>, <<1, 0, 0, 0>>}

PyBlobs == {Encode(es) : es \in BoundedSeq(PyEntries, MaxEntries)} \cup BadBlobs
PycBlobs == {Encode(es) : es \in BoundedSeq(PycEntries, MaxEntries)} \cup BadBlobs

MetaPaths ==
    {<<>>,
     <<"BuiltinImporter">>,
     <<"BuiltinImporter", "FrozenImporter">>,
     <<"FrozenImporter", "BuiltinImporter">>,
     <<"BuiltinImporter", "FrozenImporter", "PathFinder">>}

\* PyEval_GetBuiltins() and its "exec" item: present, or one of them missing.
Builtins == {"ok", "null", "no exec"}

Inittabs == {<<NameS>>, <<NameS, NameB>>, <<NameS, NameBad>>}
FrozenTables == {<<NameZA>>, <<NameZA, NameS, NameB>>, <<NameBad, NameZA>>}

\* Names the interpreter asks the importer about.
OpNames == {NameA, NameB, NameAB, NameABC, NameS, NameZA}
\* (path, target) pairs passed to find_spec.
FindSpecArgs == {<<PyNone, PyNone>>, <<[kind |-> "list"], [kind |-> "module"]>>}

\* module_init: the blobs are copied from NEXT_MODULE_STATE, setup_called is false.
Init ==
    /\ state \in [py_data : PyBlobs, pyc_data : PycBlobs, setup_called : {FALSE}]
    /\ meta_path \in MetaPaths
    /\ inittab \in Inittabs
    /\ frozen \in FrozenTables
    /\ finder = NoFinder
    /\ last = NoCall

Next ==
    \/ \E builtins \in Builtins : ModuleSetup(builtins)
    \/ \E fullname \in OpNames, pt \in FindSpecArgs : FindSpec(fullname, pt[1], pt[2])
    \/ FindModule(NameA)
    \/ InvalidateCaches
    \/ CreateModule(NameA)
    \/ \E name \in OpNames, loads_ok \in BOOLEAN : ExecModule(name, loads_ok)
    \/ \E fullname \in OpNames : GetCode(fullname)
    \/ \E fullname \in OpNames : GetSource(fullname)

Spec == Init /\ [][Next]_vars

----------------------------------------------------------------------------
(* The parser on its own: one buffer, parsed once *)

ParseBlob ==
    /\ last' = [op |-> "parse_modules_blob", args |-> <<state.py_data>>,
                result |-> parse_modules_blob(state.py_data), calls |-> <<>>]
    /\ UNCHANGED <<state, meta_path, inittab, frozen, finder>>

InitParse ==
    /\ state \in [py_data : ParseBlobs, pyc_data : {<<>>}, setup_called : {FALSE}]
    /\ meta_path = <<>>
    /\ inittab = <<>>
    /\ frozen = <<>>
    /\ finder = NoFinder
    /\ last = NoCall

NextParse == ParseBlob

SpecParse == InitParse /\ [][NextParse]_vars

----------------------------------------------------------------------------
(* The layout of a buffer, read off its bytes (used to state the claims) *)

FieldAt(data, pos) ==
    data[pos + 1] + 256 * data[pos + 2] + 65536 * data[pos + 3] + 16777216 * data[pos + 4]

DeclaredCount(data) == FieldAt(data, 0)
IndexEnd(data) == 4 + 8 * DeclaredCount(data)
NameLen(data, i) == FieldAt(data, 4 + 8 * (i - 1))
DataLen(data, i) == FieldAt(data, 8 + 8 * (i - 1))

RECURSIVE NamesUpTo(_, _)
NamesUpTo(data, i) == IF i = 0 THEN 0 ELSE NamesUpTo(data, i - 1) + NameLen(data, i)

RECURSIVE DatasUpTo(_, _)
DatasUpTo(data, i) == IF i = 0 THEN 0 ELSE DatasUpTo(data, i - 1) + DataLen(data, i)

NameEnd(data, i) == IndexEnd(data) + NamesUpTo(data, i)
DataEnd(data, i) ==
    IndexEnd(data) + NamesUpTo(data, DeclaredCount(data)) + DatasUpTo(data, i)

IndexName(data, i) == SubSeq(data, NameEnd(data, i - 1) + 1, NameEnd(data, i))
IndexData(data, i) == SubSeq(data, DataEnd(data, i - 1) + 1, DataEnd(data, i))

\* Shorter than 4 bytes, or the index does not fit, or a slice range exceeds the buffer.
Malformed(data) ==
    \/ Len(data) < 4
    \/ IndexEnd(data) > Len(data)
    \/ \E i \in 1..DeclaredCount(data) :
           NameEnd(data, i) > Len(data) \/ DataEnd(data, i) > Len(data)

\* Header, index, names region and payload region, and nothing else.
WellFormed(data) ==
    /\ Len(data) >= 4
    /\ IndexEnd(data) <= Len(data)
    /\ DataEnd(data, DeclaredCount(data)) = Len(data)

IndexEntries(data) ==
    [i \in 1..DeclaredCount(data) |-> [name |-> IndexName(data, i), data |-> IndexData(data, i)]]

\* The table of a list of entries: for each name, the payload of its last entry.
LastWins(es) ==
    [nm \in {es[i].name : i \in DOMAIN es} |->
        es[CHOOSE i \in DOMAIN es :
               es[i].name = nm /\ \A j \in DOMAIN es : es[j].name = nm => j <= i].data]

Range(seq) == {seq[i] : i \in DOMAIN seq}

StrictAncestors(name) == {SubSeq(name, 1, i - 1) : i \in {j \in DOMAIN name : name[j] = Dot}}

----------------------------------------------------------------------------
(* Claims *)

\* C2: for every malformed buffer (shorter than 4 bytes, index longer than the
\* buffer, or a name or payload range beyond the buffer) parse_modules_blob
\* returns an error value.  The code panics instead for all but the first case.
C2_MalformedReturnsErr ==
    (last.op = "parse_modules_blob" /\ Malformed(last.args[1]))
        => last.result.tag = "Err"

\* C4: for every well-formed packed blob the parsed table has exactly the names
\* of the index as keys, each with the payload of the last index entry of that
\* name, byte for byte; the blob is the encoding of those entries.
C4_RoundTrip ==
    (last.op = "parse_modules_blob" /\ WellFormed(last.args[1]))
        => /\ Encode(IndexEntries(last.args[1])) = last.args[1]
           /\ last.result.tag = "Ok"
           /\ last.result.map = LastWins(IndexEntries(last.args[1]))

C4_Witness ==
    /\ last.op = "parse_modules_blob"
    /\ last.args[1] = Encode(<<[name |-> NameA, data |-> <<7>>],
                               [name |-> NameA, data |-> <<8, 9>>]>>)
    /\ last.result.tag = "Ok"
    /\ DOMAIN last.result.map = {NameA}
    /\ last.result.map[NameA] = <<8, 9>>

\* A step that is a call of module_setup.
SetupStep == last'.op = "module_setup" /\ \E builtins \in Builtins : ModuleSetup(builtins)

AlreadyCalledError == Err("RuntimeError", <<"PyOxidizer _setup() already called">>)

\* C1: once a _setup() call has succeeded, every later _setup() call raises
\* RuntimeError ("already called") and changes nothing: sys.meta_path still
\* holds only the importer installed by the first call, the importer is the
\* same, and find_spec answers every name as before.
C1_SecondSetupRejected ==
    [][(finder.exists /\ SetupStep)
           => /\ last'.result = AlreadyCalledError
              /\ meta_path' = meta_path
              /\ meta_path' = <<"PyOxidizerFinder">>
              /\ finder' = finder
              /\ \A n \in OpNames, pt \in FindSpecArgs :
                     find_spec(finder', n, pt[1], pt[2]) = find_spec(finder, n, pt[1], pt[2])]_vars

C1_Witness ==
    /\ finder.exists
    /\ last.op = "module_setup"
    /\ last.result.tag = "Err"
    /\ last.result = AlreadyCalledError
    /\ meta_path = <<"PyOxidizerFinder">>

\* C3: after a successful _setup() sys.meta_path holds exactly one entry, the new
\* importer, whose builtin_importer is the entry formerly at position 0 and
\* whose frozen_importer is the entry formerly at position 1.
C3_SoleImporterKeepsDelegates ==
    [][(SetupStep /\ last'.result.tag = "Ok")
           => /\ meta_path' = <<"PyOxidizerFinder">>
              /\ ~finder.exists
              /\ finder'.exists
              /\ Len(meta_path) = 2
              /\ finder'.builtin_importer = meta_path[1]
              /\ finder'.frozen_importer = meta_path[2]]_vars

C3_Witness ==
    /\ last.op = "module_setup"
    /\ last.result.tag = "Ok"
    /\ meta_path = <<"PyOxidizerFinder">>
    /\ finder.exists
    /\ finder.builtin_importer = "FrozenImporter"
    /\ finder.frozen_importer = "BuiltinImporter"

\* The flavor the three name sources imply for a name ("absent" for none).
ExpectedFlavor(n) ==
    IF n \in DOMAIN finder.py_modules \cup DOMAIN finder.pyc_modules THEN "InMemory"
    ELSE IF n \in Range(frozen) THEN "Frozen"
    ELSE IF n \in Range(inittab) THEN "Builtin"
    ELSE "absent"

KnownFlavor(n) ==
    IF n \in DOMAIN finder.known_modules THEN finder.known_modules[n] ELSE "absent"

SourceNames ==
    OpNames \cup Range(inittab) \cup Range(frozen)
    \cup DOMAIN finder.py_modules \cup DOMAIN finder.pyc_modules

\* C5: the registry built by _setup() reports InMemory for a key of py_modules
\* or pyc_modules, otherwise Frozen for a frozen name, otherwise Builtin for a
\* built-in name, and has no entry for any other name.
C5_FlavorPrecedence ==
    finder.exists
        => /\ DOMAIN finder.known_modules \subseteq SourceNames
           /\ \A n \in SourceNames : KnownFlavor(n) = ExpectedFlavor(n)

C5_Witness ==
    /\ finder.exists
    /\ NameB \in DOMAIN finder.py_modules
    /\ NameB \in Range(frozen) /\ NameB \in Range(inittab)
    /\ NameS \in Range(frozen) /\ NameS \in Range(inittab)
    /\ finder.known_modules[NameB] = "InMemory"
    /\ finder.known_modules[NameS] = "Frozen"
    /\ finder.known_modules[NameZA] = "Frozen"

\* C6: find_spec(name, path, target) returns, by the flavor of name, the result
\* of the builtin importer's find_spec on the same three arguments, the result
\* of the frozen importer's, or a ModuleSpec built with this importer as loader
\* and is_package = (name in packages); for a name not in the registry it
\* returns None, also when the name is in packages.
C6_FindSpecDispatch ==
    (finder.exists /\ last.op = "find_spec")
        => LET n == last.args[1]
               flavor == KnownFlavor(n)
           IN  /\ flavor = "absent" => last.result = Ok(PyNone) /\ last.calls = <<>>
               /\ flavor = "Builtin" =>
                      /\ last.result.tag = "Call"
                      /\ last.result =
                             Call(finder.builtin_importer, "find_spec", last.args, NoKwargs)
               /\ flavor = "Frozen" =>
                      /\ last.result.tag = "Call"
                      /\ last.result =
                             Call(finder.frozen_importer, "find_spec", last.args, NoKwargs)
               /\ flavor = "InMemory" =>
                      /\ last.result.tag = "Call"
                      /\ last.result =
                             Call("module_spec_type", "__call__", <<n, "PyOxidizerFinder">>,
                                  [is_package |-> n \in finder.packages])

C6_Witness ==
    /\ finder.exists
    /\ last.op = "find_spec"
    /\ last.args[1] = NameA
    /\ NameA \in finder.packages
    /\ NameA \notin DOMAIN finder.known_modules
    /\ NameAB \in finder.packages
    /\ KnownFlavor(NameAB) = "InMemory"
    /\ KnownFlavor(NameB) = "InMemory"
    /\ last.result = Ok(PyNone)

\* The ImportError a method raises for name n.
IsImportErrorFor(r, n) ==
    /\ r.tag = "Err"
    /\ r.exc = "ImportError"
    /\ r.args[2] = n

\* C7: for a name registered InMemory, exec_module and get_code raise ImportError
\* naming it when pyc_modules has no entry for it, without calling marshal.loads
\* or the exec helper; get_source raises ImportError naming it when py_modules
\* has no entry for it; and the failing call leaves the registry, the packages
\* and both tables (and everything else) as they were.
C7_MissingPayloadRaises ==
    [][(finder.exists
        /\ last'.op \in {"exec_module", "get_code", "get_source"}
        /\ KnownFlavor(last'.args[1]) = "InMemory")
           => LET n == last'.args[1]
              IN  /\ (last'.op \in {"exec_module", "get_code"}
                      /\ n \notin DOMAIN finder.pyc_modules)
                         => /\ IsImportErrorFor(last'.result, n)
                            /\ last'.calls = <<>>
                            /\ finder' = finder
                            /\ UNCHANGED <<state, meta_path, inittab, frozen>>
                  /\ (last'.op = "get_source" /\ n \notin DOMAIN finder.py_modules)
                         => /\ IsImportErrorFor(last'.result, n)
                            /\ last'.calls = <<>>
                            /\ finder' = finder
                            /\ UNCHANGED <<state, meta_path, inittab, frozen>>]_vars

C7_Witness ==
    /\ finder.exists
    /\ last.op = "exec_module"
    /\ last.args[1] = NameABC
    /\ KnownFlavor(NameABC) = "InMemory"
    /\ NameABC \notin DOMAIN finder.pyc_modules
    /\ IsImportErrorFor(last.result, NameABC)

\* C8: after _setup() the packages set is exactly the set of strict dotted-prefix
\* ancestors of the keys of py_modules and pyc_modules: every ancestor of every
\* such key is a member, a key without '.' adds none, and built-in and frozen
\* names add none.
C8_PackagesAreAncestors ==
    finder.exists
        => finder.packages =
               UNION {StrictAncestors(k) :
                          k \in DOMAIN finder.py_modules \cup DOMAIN finder.pyc_modules}

C8_Witness ==
    /\ finder.exists
    /\ DOMAIN finder.py_modules = {NameABC, NameB}
    /\ DOMAIN finder.pyc_modules = {NameB}
    /\ NameZA \in Range(frozen)
    /\ finder.packages = {NameA, NameAB}

\* C9: for a name not in the registry find_spec, exec_module, get_code and
\* get_source return None and call no delegate or capability;
\* invalidate_caches returns None; none of these calls changes anything.
C9_UnknownNamesSucceed ==
    [][(finder.exists
        /\ last'.op \in {"find_spec", "exec_module", "get_code", "get_source",
                         "invalidate_caches"})
           => /\ finder' = finder
              /\ UNCHANGED <<state, meta_path, inittab, frozen>>
              /\ last'.op = "invalidate_caches"
                     => last'.result = Ok(PyNone) /\ last'.calls = <<>>
              /\ (last'.op /= "invalidate_caches"
                  /\ last'.args[1] \notin DOMAIN finder.known_modules)
                     => last'.result = Ok(PyNone) /\ last'.calls = <<>>]_vars

C9_Witness ==
    /\ finder.exists
    /\ last.op = "exec_module"
    /\ last.args[1] \notin DOMAIN finder.known_modules
    /\ last.result = Ok(PyNone)
    /\ last.calls = <<>>

\* C10: a _setup() call that does not succeed (ValueError for a meta path that
\* does not hold two entries, for a blob that is too small or for a name that is
\* not valid text; or a panic in the parser) leaves sys.meta_path as it was and
\* installs no importer.
C10_FailedSetupKeepsMetaPath ==
    [][(SetupStep /\ last'.result.tag /= "Ok")
           => /\ meta_path' = meta_path
              /\ finder' = finder]_vars

C10_Witness ==
    /\ last.op = "module_setup"
    /\ last.result.tag = "Err"
    /\ last.result.exc = "ValueError"
    /\ meta_path = <<"BuiltinImporter", "FrozenImporter">>
    /\ ~finder.exists
    /\ state.setup_called

\* C11: the guard is set by every _setup() call, before the meta path check and
\* before the blobs are parsed, whether the call succeeds or fails; so after a
\* first call that failed every later call raises RuntimeError ("already
\* called") and changes nothing, and no importer is ever installed: the guard
\* being set does not mean an importer exists.
C11_FailedSetupLocksInstance ==
    [][/\ SetupStep => state'.setup_called
       /\ (state.setup_called /\ SetupStep)
              => /\ last'.result = AlreadyCalledError
                 /\ meta_path' = meta_path
                 /\ finder' = finder
       /\ (state.setup_called /\ ~finder.exists)
              => /\ ~finder'.exists
                 /\ meta_path' = meta_path
                 /\ "PyOxidizerFinder" \notin Range(meta_path')]_vars

C11_Witness ==
    /\ state.setup_called
    /\ ~finder.exists
    /\ last.op = "module_setup"
    /\ last.result.tag = "Err"
    /\ last.result = AlreadyCalledError
    /\ meta_path = <<"BuiltinImporter", "FrozenImporter">>
    /\ parse_modules_blob(state.py_data).tag = "Ok"
    /\ parse_modules_blob(state.pyc_data).tag = "Ok"
    /\ \A i \in DOMAIN inittab : to_str_ok(inittab[i])

====
